---- MODULE Spec2Model ----
(***************************************************************************)
(* A model of cargo-heu (src/src/lib.rs, src/src/main.rs): the test       *)
(* harness that builds a solution, runs the resolved test cases on a      *)
(* worker pool, scores each run with a visualizer and re-serialises the   *)
(* results in resolved-sequence order.                                    *)
(*                                                                         *)
(* Text is a sequence of one-character strings.  A subprocess is an       *)
(* atomic step of the thread that waits for it.  std::fs::write is        *)
(* File::create, which truncates the file, followed by write_all: two     *)
(* steps, between which other threads and their subprocesses see the      *)
(* file empty.                                                            *)
(***************************************************************************)
EXTENDS Integers, Sequences, FiniteSets

\* ------------------------------------------------------------------ bounds
\* Longest resolved sequence the harness is run on.
MaxPos == 3
\* Largest configured worker count (test.threads).
MaxThreads == 2
\* Most things that go wrong in one run: malformed configuration strings
\* (commands, patterns) and operations the environment refuses.
MaxFaults == 1

\* ------------------------------------------------------------------ text
Digit == <<"0", "1", "2", "3", "4", "5", "6", "7", "8", "9">>

IsDigit(ch) == \E d \in 1..10 : Digit[d] = ch

DigitVal(ch) == (CHOOSE d \in 1..10 : Digit[d] = ch) - 1

Reverse(s) == [i \in 1..Len(s) |-> s[Len(s) + 1 - i]]

\* u64::to_string
RECURSIVE to_string(_)
to_string(n) ==
    IF n < 10 THEN <<Digit[n + 1]>>
    ELSE Append(to_string(n \div 10), Digit[(n % 10) + 1])

\* The loop of format_with_commas over s.chars().rev().enumerate(): the text
\* pushed after the first k characters of rev.
RECURSIVE PushGrouped(_, _)
PushGrouped(rev, k) ==
    IF k = 0 THEN <<>>
    ELSE LET i == k - 1
             sofar == PushGrouped(rev, k - 1)
         IN  (IF i > 0 /\ i % 3 = 0 THEN Append(sofar, ",") ELSE sofar)
                 \o <<rev[k]>>

format_with_commas(n) ==
    LET s == to_string(n)
    IN  Reverse(PushGrouped(Reverse(s), Len(s)))

\* str::parse of an unsigned integer type: an optional '+', then one or
\* more decimal digits that stand for a number of the type.  The result is
\* <<TRUE, value>> or <<FALSE, 0>>.
RECURSIVE DecimalValue(_)
DecimalValue(s) ==
    IF s = <<>> THEN 0
    ELSE 10 * DecimalValue(SubSeq(s, 1, Len(s) - 1)) + DigitVal(s[Len(s)])

\* The digits of u32::MAX and of u64::MAX.
U32Max == <<"4", "2", "9", "4", "9", "6", "7", "2", "9", "5">>
U64Max == <<"1", "8", "4", "4", "6", "7", "4", "4", "0", "7",
            "3", "7", "0", "9", "5", "5", "1", "6", "1", "5">>

RECURSIVE StripZeros(_)
StripZeros(d) ==
    IF Len(d) > 1 /\ d[1] = "0" THEN StripZeros(Tail(d)) ELSE d

\* The number the digits d stand for is at most the number max stands for
\* (the overflow check of the parse, made on the digits).
Fits(d, max) ==
    LET t == StripZeros(d)
    IN  \/ Len(t) < Len(max)
        \/ /\ Len(t) = Len(max)
           /\ \/ t = max
              \/ \E i \in 1..Len(t) :
                    /\ \A j \in 1..(i - 1) : t[j] = max[j]
                    /\ DigitVal(t[i]) < DigitVal(max[i])

ParseUnsigned(s, max) ==
    LET body == IF s # <<>> /\ s[1] = "+" THEN Tail(s) ELSE s
    IN  IF /\ body # <<>>
           /\ \A i \in 1..Len(body) : IsDigit(body[i])
           /\ Fits(body, max)
        THEN <<TRUE, DecimalValue(body)>>
        ELSE <<FALSE, 0>>

\* str::parse::<u32> and str::parse::<u64>
ParseU32(s) == ParseUnsigned(s, U32Max)
ParseU64(s) == ParseUnsigned(s, U64Max)

\* str::split('-'): the pieces between the dashes (always at least one).
RECURSIVE SplitDash(_)
SplitDash(s) ==
    IF \A i \in 1..Len(s) : s[i] # "-" THEN <<s>>
    ELSE LET k == CHOOSE i \in 1..Len(s) :
                      s[i] = "-" /\ \A j \in 1..(i - 1) : s[j] # "-"
         IN  <<SubSeq(s, 1, k - 1)>> \o SplitDash(SubSeq(s, k + 1, Len(s)))

\* start..=end
RangeInclusive(a, b) == [i \in 1..(IF a > b THEN 0 ELSE b - a + 1) |-> a + i - 1]

\* Variant of ExpandToken that takes the first two pieces of a token with
\* more than one dash for a range.
ExpandTokenFirstTwo(s) ==
    LET parts == SplitDash(s)
    IN  IF Len(parts) = 1
        THEN (IF ParseU32(parts[1])[1]
              THEN <<ParseU32(parts[1])[2]>> ELSE <<>>)
        ELSE (IF ParseU32(parts[1])[1] /\ ParseU32(parts[2])[1]
              THEN RangeInclusive(ParseU32(parts[1])[2], ParseU32(parts[2])[2])
              ELSE <<>>)

\* What one selector token adds to ret.
ExpandToken(s) ==
    LET parts == SplitDash(s)
    IN  IF Len(parts) = 1
        THEN (IF ParseU32(parts[1])[1]
              THEN <<ParseU32(parts[1])[2]>> ELSE <<>>)
        ELSE IF Len(parts) = 2
        THEN (IF ParseU32(parts[1])[1] /\ ParseU32(parts[2])[1]
              THEN RangeInclusive(ParseU32(parts[1])[2],
                                  ParseU32(parts[2])[2])
              ELSE <<>>)
        ELSE <<>>

RECURSIVE ExpandAll(_)
ExpandAll(args) ==
    IF args = <<>> THEN <<>>
    ELSE ExpandToken(Head(args)) \o ExpandAll(Tail(args))

parse_cases(args) ==
    IF args = <<>> THEN <<0, 1, 2, 3, 4>> ELSE ExpandAll(args)

\* ------------------------------------------------------------ selectors
\* The selector tokens the harness is run on: single indices, ranges and
\* malformed tokens over two case indices, up to two tokens on a command line.
CaseIndices == {0, 1}
TokenCounts == {0, 1, 2}
Numerals == {to_string(a) : a \in CaseIndices}

SelectorTokens ==
    Numerals
    \cup {a \o <<"-">> \o b : a \in Numerals, b \in Numerals}
    \cup {<<"x">>, <<"0", "-">>, <<"0", "-", "1", "-", "0">>}

SelectorInputs == UNION {[1..k -> SelectorTokens] : k \in TokenCounts}

\* ------------------------------------------------------------- commands
\* A command string is well formed, cannot be split by shlex, or is empty.
CommandStrings == {"ok", "unsplittable", "empty"}

Ok(v) == [ok |-> TRUE, val |-> v]
\* An io::Error: its message, the operation that raised it and the position
\* of the case it was raised for (-1 outside the cases).
Err(msg, op, at) == [ok |-> FALSE, val |-> <<msg, op, at>>]

\* Heu::parse_command_parts of the command string cmd of the field `field`.
parse_command_parts(cmd, field, at) ==
    IF cmd = "unsplittable" THEN Err("invalid command", field, at)
    ELSE IF cmd = "empty" THEN Err("empty command", field, at)
    ELSE Ok("parts")

command_from_str(cmd, field, at) == parse_command_parts(cmd, field, at)

\* --------------------------------------------------- external programs
\* One deterministic solution and one deterministic visualizer.  A line of
\* captured text is what the pattern applied to it finds: no match (m false),
\* a match in which group 1 took no part (g false), or the text of group 1.
NoMatch == [m |-> FALSE, g |-> FALSE, text |-> <<>>]
Capture(t) == [m |-> TRUE, g |-> TRUE, text |-> t]

\* The solution's standard output for case c, as file content.
SolOut(c) == <<"out", c>>
\* Its standard error, seen through the comment pattern.
SolErr(c) == <<NoMatch, Capture(<<"c">> \o to_string(c)), Capture(<<"k">>)>>
\* Its exit status: non-zero on odd cases.
SolExit(c) == c % 2

\* The score the visualizer gives the answer of case c.
VisScore(c) == 499 + c

\* The visualizer's standard output for case c given the output file's
\* content, seen through the score pattern: no score line for an output
\* file that does not hold the whole answer.
VisOut(c, content) ==
    IF content = SolOut(c)
    THEN <<NoMatch, Capture(to_string(VisScore(c))), Capture(<<"7">>)>>
    ELSE <<NoMatch>>
\* Its exit status: non-zero when it finds no answer.
VisExit(c, content) == IF content = SolOut(c) THEN 0 ELSE 1

\* ------------------------------------------------------ score extractor
RECURSIVE parse_score(_)
parse_score(visout) ==
    IF visout = <<>> THEN 0
    ELSE IF Head(visout).m /\ Head(visout).g
    THEN (LET r == ParseU64(Head(visout).text)
          IN  IF r[1] THEN r[2] ELSE 0)
    ELSE parse_score(Tail(visout))

RECURSIVE lookup_comments_from(_)
lookup_comments_from(stderr) ==
    IF stderr = <<>> THEN <<>>
    ELSE LET line == stderr[Len(stderr)]
             cmts == lookup_comments_from(SubSeq(stderr, 1, Len(stderr) - 1))
         IN  IF line.m /\ line.g
             THEN (IF cmts # <<>> THEN Append(cmts, "/") ELSE cmts) \o line.text
             ELSE cmts

\* CaseResult::new; pos is the position the result was computed for.
CaseResult(pos, case, visout, stderr) ==
    [pos |-> pos, case |-> case, outf |-> case, visout |-> visout,
     stderr |-> stderr, score |-> parse_score(visout)]

\* The line CaseResult::print writes (the elapsed time left out).
ResultLine(r) ==
    [kind |-> "case", pos |-> r.pos, case |-> r.case,
     score |-> format_with_commas(r.score),
     cmts |-> lookup_comments_from(r.stderr)]

TotalLine(total) ==
    [kind |-> "total", pos |-> -1, case |-> -1,
     score |-> format_with_commas(total), cmts |-> <<>>]

\* -------------------------------------------------------- configuration
PatternStrings == {"valid", "invalid"}

AllConfigs ==
    [build_enable : BOOLEAN, build_command : CommandStrings,
     bin : CommandStrings, tester : CommandStrings, vis : CommandStrings,
     use_tester : BOOLEAN, no_evaluate : BOOLEAN, threads : 1..MaxThreads,
     score_regex : PatternStrings, comment_regex : PatternStrings]

Faults(c) ==
    Cardinality({f \in {"build_command", "bin", "tester", "vis"} : c[f] # "ok"})
    + Cardinality({f \in {"score_regex", "comment_regex"} : c[f] # "valid"})

Configs == {c \in AllConfigs : Faults(c) <= MaxFaults}

\* The selector inputs whose resolved sequence has at most MaxPos positions.
RunInputs == {t \in SelectorInputs : Len(parse_cases(t)) <= MaxPos}

\* What parse_cases makes of them.
Resolutions == {parse_cases(args) : args \in RunInputs}

\* ---------------------------------------------------------------- state
VARIABLES
    pc,         \* where main is: start, constructed, building, built,
                \* runonly, evaluating, returned, exited
    config,     \* the Config handed to Heu::new
    cases,      \* Heu.cases, the resolved sequence
    regexes,    \* Heu.score_regex and Heu.comment_regex
    ret,        \* what Heu::execute returned
    exit,       \* the process exit status, -1 while running
    stdout,     \* the lines printed to standard output
    stderr,     \* the lines printed to standard error
    spawned,    \* the subprocesses spawned so far: <<program, position>>
    dirs,       \* whether the output directory exists
    files,      \* the output files: case index -> content
    roNext,     \* execute_run_only: the next position of the for loop
    pool,       \* the rayon pool: none, installed, failed, done
    wpc,        \* per position: idle, trunc, written, sent
    res,        \* per position: the io::Result of execute_case
    chan,       \* the mpsc channel: messages sent and not yet received
    txOpen,     \* the Sender is alive
    rxOpen,     \* the Receiver is alive
    aggPc,      \* the receiver thread: none, recv, ok, err
    aggRet,     \* what the receiver thread returned
    buf, next, total, last,   \* the receiver thread's locals
    clipboard,  \* the clipboard's content
    clips,      \* the positions whose result clip() was called on
    firstErr,   \* the first error that entered the channel
    stages,     \* the stages the batch went through, in order
    buildExit,  \* the build command's exit status, -1 while there is none
    execs,      \* per position: how many times execute_case was called
    faults,     \* how many things went wrong so far
    call        \* a function applied on its own: its name, argument, result

vars == <<pc, config, cases, regexes, ret, exit, stdout, stderr, spawned,
          dirs, files, roNext, pool, wpc, res, chan, txOpen, rxOpen, aggPc,
          aggRet, buf, next, total, last, clipboard, clips, firstErr, stages,
          buildExit, execs, faults, call>>

\* Every variable of a run of the harness.
runVars == <<pc, config, cases, regexes, ret, exit, stdout, stderr, spawned,
             dirs, files, roNext, pool, wpc, res, chan, txOpen, rxOpen, aggPc,
             aggRet, buf, next, total, last, clipboard, clips, firstErr,
             stages, buildExit, execs, faults>>

mainVars == <<pc, ret, exit, stderr, roNext, stages, buildExit>>
heuVars == <<config, cases, regexes>>
aggVars == <<aggPc, aggRet, buf, next, total, last, clipboard, clips, stdout>>
workVars == <<wpc, res, spawned, dirs, files, execs>>

\* The environment may refuse an operation while the run's faults allow it.
CanFail == faults < MaxFaults
Refused(ok) == IF ok THEN faults ELSE faults + 1

None == [ok |-> FALSE, val |-> <<"none", "none", -1>>]
NoCall == [fn |-> "none", arg |-> <<>>, out |-> <<>>, done |-> FALSE]
Absent == <<"absent">>
Empty == <<"empty">>

N == Len(cases)
Positions == 0..(N - 1)
CaseAt(p) == cases[p + 1]

\* The batch enters a stage; execute returns r.
Enter(stage) == Append(stages, stage)
Finish(r) == Append(stages, IF r.ok THEN "Completed" ELSE "Failed")

Init ==
    /\ pc = "start"
    /\ config \in Configs
    /\ cases = <<>>
    /\ regexes = [score |-> "none", comment |-> "none"]
    /\ ret = None
    /\ exit = -1
    /\ stdout = <<>>
    /\ stderr = <<>>
    /\ spawned = {}
    /\ dirs = FALSE
    /\ files = [c \in CaseIndices |-> Absent]
    /\ roNext = 0
    /\ pool = "none"
    /\ wpc = <<>>
    /\ res = <<>>
    /\ chan = <<>>
    /\ txOpen = FALSE
    /\ rxOpen = FALSE
    /\ aggPc = "none"
    /\ aggRet = None
    /\ buf = <<>>
    /\ next = 0
    /\ total = 0
    /\ last = None
    /\ clipboard = Absent
    /\ clips = <<>>
    /\ firstErr = None
    /\ stages = <<"Idle">>
    /\ buildExit = -1
    /\ execs = <<>>
    /\ faults = Faults(config)
    /\ call = NoCall

\* Variant of New that compiles the patterns on first use instead of at
\* construction: an invalid pattern is not noticed by the constructor.
NewLazy ==
    /\ pc = "start"
    /\ \E resolved \in Resolutions :
         /\ pc' = "constructed"
         /\ cases' = resolved
         /\ regexes' = [score |-> config.score_regex,
                        comment |-> config.comment_regex]
    /\ UNCHANGED <<config, ret, exit, stderr, stdout, spawned, dirs, files,
                   roNext, pool, wpc, res, chan, txOpen, rxOpen, aggPc, aggRet,
                   buf, next, total, last, clipboard, clips, firstErr, stages,
                   buildExit, execs, faults>>
    /\ UNCHANGED call

\* ------------------------------------------------------------ Heu::new
\* parse_cases of some selector input, then the two
\* Regex::new(..).unwrap_or_else(panic).
New ==
    /\ pc = "start"
    /\ \E resolved \in Resolutions :
         IF config.score_regex # "valid"
         THEN /\ pc' = "exited"
              /\ exit' = 101
              /\ stderr' = Append(stderr, <<"panic", "Invalid test.score_regex">>)
              /\ UNCHANGED <<cases, regexes>>
         ELSE IF config.comment_regex # "valid"
         THEN /\ pc' = "exited"
              /\ exit' = 101
              /\ stderr' = Append(stderr, <<"panic", "Invalid test.comment_regex">>)
              /\ UNCHANGED <<cases, regexes>>
         ELSE /\ pc' = "constructed"
              /\ cases' = resolved
              /\ regexes' = [score |-> "compiled", comment |-> "compiled"]
              /\ UNCHANGED <<exit, stderr>>
    /\ UNCHANGED <<config, ret, stdout, spawned, dirs, files, roNext, pool,
                   wpc, res, chan, txOpen, rxOpen, aggPc, aggRet, buf, next,
                   total, last, clipboard, clips, firstErr, stages,
                   buildExit, execs, faults>>
    /\ UNCHANGED call

\* ---------------------------------------------------------- Heu::build
BuildSkip ==
    /\ pc = "constructed"
    /\ ~config.build_enable
    /\ pc' = "built"
    /\ stages' = Enter("Building")
    /\ UNCHANGED <<ret, exit, stderr, roNext, stdout, spawned, buildExit,
                   faults>>

\* command_from_str(..)?.status()? up to the spawn.
BuildSpawn ==
    /\ pc = "constructed"
    /\ config.build_enable
    /\ LET cmd == command_from_str(config.build_command, "build_command", -1)
       IN  IF ~cmd.ok
           THEN /\ pc' = "returned"
                /\ ret' = cmd
                /\ stages' = stages \o <<"Building", "Failed">>
                /\ UNCHANGED <<spawned, faults>>
           ELSE \E ok \in BOOLEAN :
                  /\ ~ok => CanFail
                  /\ faults' = Refused(ok)
                  /\ IF ok
                     THEN /\ pc' = "building"
                          /\ spawned' = spawned \cup {<<"build", -1>>}
                          /\ stages' = Enter("Building")
                          /\ UNCHANGED ret
                     ELSE /\ pc' = "returned"
                          /\ ret' = Err("os error", "spawn build", -1)
                          /\ stages' = stages \o <<"Building", "Failed">>
                          /\ UNCHANGED spawned
    /\ UNCHANGED <<exit, stderr, roNext, stdout, buildExit>>

\* Variant of BuildExit that does not look at the exit status.
BuildExitIgnored ==
    /\ pc = "building"
    /\ \E success \in BOOLEAN :
         /\ ~success => CanFail
         /\ faults' = Refused(success)
         /\ buildExit' = IF success THEN 0 ELSE 1
    /\ pc' = "built"
    /\ UNCHANGED <<ret, stages, exit, stderr, roNext, stdout, spawned>>

\* The build command exits.
BuildExit ==
    /\ pc = "building"
    /\ \E success \in BOOLEAN :
         /\ ~success => CanFail
         /\ faults' = Refused(success)
         /\ buildExit' = IF success THEN 0 ELSE 1
         /\ IF success
            THEN pc' = "built" /\ UNCHANGED <<ret, stages>>
            ELSE /\ pc' = "returned"
                 /\ ret' = Err("build failed", "build", -1)
                 /\ stages' = Finish(ret')
    /\ UNCHANGED <<exit, stderr, roNext, stdout, spawned>>

Build ==
    /\ (BuildSkip \/ BuildSpawn \/ BuildExit)
    /\ UNCHANGED <<config, cases, regexes, dirs, files, pool, wpc, res, chan,
                   txOpen, rxOpen, aggPc, aggRet, buf, next, total, last,
                   clipboard, clips, firstErr, execs>>
    /\ UNCHANGED call

\* -------------------------------------------------------- Heu::execute
\* build() returned Ok and no_evaluate is set: execute_run_only is entered.
EnterRunOnly ==
    /\ pc = "built"
    /\ config.no_evaluate
    /\ pc' = "runonly"
    /\ roNext' = 0
    /\ stages' = Enter("RunOnly")
    /\ UNCHANGED <<ret, exit, stderr, buildExit, heuVars, aggVars, workVars,
                   pool, chan, txOpen, rxOpen, firstErr, faults>>
    /\ UNCHANGED call

\* Variant of RunOnlyStep that does not look at the exit status of the
\* solution and goes on with the next case.
RunOnlyStepKeepGoing ==
    /\ pc = "runonly"
    /\ IF roNext >= N
       THEN /\ pc' = "returned"
            /\ ret' = Ok("unit")
            /\ UNCHANGED <<roNext, spawned>>
       ELSE /\ spawned' = spawned \cup {<<"bin", roNext>>}
            /\ roNext' = roNext + 1
            /\ UNCHANGED <<pc, ret>>
    /\ stages' = IF pc' = "returned" THEN Finish(ret') ELSE stages
    /\ UNCHANGED <<exit, stderr, buildExit, heuVars, aggVars, dirs, files,
                   wpc, res, execs, pool, chan, txOpen, rxOpen, firstErr,
                   faults>>
    /\ UNCHANGED call

\* One iteration of execute_run_only's for loop, or its end.
RunOnlyStep ==
    /\ pc = "runonly"
    /\ IF roNext >= N
       THEN /\ pc' = "returned"
            /\ ret' = Ok("unit")
            /\ UNCHANGED <<roNext, spawned, faults>>
       ELSE LET case == CaseAt(roNext)
                cmd == command_from_str(config.bin, "bin", roNext)
            IN  IF ~cmd.ok
                THEN /\ pc' = "returned"
                     /\ ret' = cmd
                     /\ UNCHANGED <<roNext, spawned, faults>>
                ELSE \E fault \in {"none", "open", "spawn"} :
                       /\ fault # "none" => CanFail
                       /\ faults' = Refused(fault = "none")
                       /\ IF fault = "open"
                          THEN /\ pc' = "returned"
                               /\ ret' = Err("os error", "open", roNext)
                               /\ UNCHANGED <<roNext, spawned>>
                          ELSE IF fault = "spawn"
                          THEN /\ pc' = "returned"
                               /\ ret' = Err("os error", "spawn", roNext)
                               /\ UNCHANGED <<roNext, spawned>>
                          ELSE /\ spawned' = spawned \cup {<<"bin", roNext>>}
                               /\ IF SolExit(case) # 0
                                  THEN /\ pc' = "returned"
                                       /\ ret' = Err("case failed", "status", roNext)
                                       /\ UNCHANGED roNext
                                  ELSE /\ roNext' = roNext + 1
                                       /\ UNCHANGED <<pc, ret>>
    /\ stages' = IF pc' = "returned" THEN Finish(ret') ELSE stages
    /\ UNCHANGED <<exit, stderr, buildExit, heuVars, aggVars, dirs, files,
                   wpc, res, execs, pool, chan, txOpen, rxOpen, firstErr>>
    /\ UNCHANGED call

\* build() returned Ok and no_evaluate is clear: execute_multiprocess creates
\* the channel and spawns the receiver thread with its locals.
EnterEvaluating ==
    /\ pc = "built"
    /\ ~config.no_evaluate
    /\ pc' = "evaluating"
    /\ txOpen' = TRUE
    /\ rxOpen' = TRUE
    /\ chan' = <<>>
    /\ aggPc' = "recv"
    /\ buf' = [p \in Positions |-> None]
    /\ next' = 0
    /\ total' = 0
    /\ last' = None
    /\ wpc' = [p \in Positions |-> "idle"]
    /\ res' = [p \in Positions |-> None]
    /\ execs' = [p \in Positions |-> 0]
    /\ stages' = Enter("Evaluating")
    /\ UNCHANGED <<ret, exit, stderr, roNext, buildExit, heuVars, aggRet,
                   clipboard, clips, stdout, spawned, dirs, files, pool,
                   firstErr, faults>>
    /\ UNCHANGED call

\* rayon::ThreadPoolBuilder::build: on failure the scope's closure returns
\* the error and drops the Sender it owns.
PoolBuild ==
    /\ pc = "evaluating"
    /\ pool = "none"
    /\ \E ok \in BOOLEAN :
         /\ ~ok => CanFail
         /\ faults' = Refused(ok)
         /\ IF ok THEN pool' = "installed" /\ UNCHANGED txOpen
            ELSE pool' = "failed" /\ txOpen' = FALSE
    /\ UNCHANGED <<mainVars, heuVars, aggVars, workVars, chan, rxOpen, firstErr>>
    /\ UNCHANGED call

\* ---------------------------------------------------- Heu::execute_case
\* What the environment may refuse while a case starts: creating the output
\* directory, reading the input file, opening it for the tester, spawning
\* the program, the pipes of the spawned program, creating the output file.
StartFaults == {"none", "mkdir", "read", "open", "spawn", "pipe", "create"}

\* Variant of run_command that spawns the program named by the first word
\* of the command string before the string is split and validated.
run_command_spawn_first(p, fault) ==
    LET prog == IF config.use_tester THEN "tester" ELSE "bin"
        cmd == IF config.use_tester
               THEN command_from_str(config.tester, "tester", p)
               ELSE command_from_str(config.bin, "bin", p)
        b == parse_command_parts(config.bin, "bin", p)
    IN  IF fault = "spawn"
        THEN [out |-> Err("os error", "spawn", p), spawn |-> {}]
        ELSE IF ~cmd.ok THEN [out |-> cmd, spawn |-> {<<prog, p>>}]
        ELSE IF ~b.ok THEN [out |-> b, spawn |-> {<<prog, p>>}]
        ELSE IF fault \in {"open", "pipe"}
        THEN [out |-> Err("os error", fault, p), spawn |-> {<<prog, p>>}]
        ELSE [out |-> Ok(SolOut(CaseAt(p))), spawn |-> {<<prog, p>>}]

\* Variant of run_command that turns a non-zero exit status of the program
\* it ran into an error, as execute_run_only does.
run_command_checks_status(p, fault) ==
    LET prog == IF config.use_tester THEN "tester" ELSE "bin"
        cmd == IF config.use_tester
               THEN command_from_str(config.tester, "tester", p)
               ELSE command_from_str(config.bin, "bin", p)
        b == parse_command_parts(config.bin, "bin", p)
    IN  IF ~cmd.ok THEN [out |-> cmd, spawn |-> {}]
        ELSE IF ~b.ok THEN [out |-> b, spawn |-> {}]
        ELSE IF fault = "open" /\ config.use_tester
        THEN [out |-> Err("os error", "open", p), spawn |-> {}]
        ELSE IF fault = "spawn"
        THEN [out |-> Err("os error", "spawn", p), spawn |-> {}]
        ELSE IF fault = "pipe"
        THEN [out |-> Err("os error", "pipe", p), spawn |-> {<<prog, p>>}]
        ELSE IF SolExit(CaseAt(p)) # 0
        THEN [out |-> Err("execution failed", "status", p),
              spawn |-> {<<prog, p>>}]
        ELSE [out |-> Ok(SolOut(CaseAt(p))), spawn |-> {<<prog, p>>}]

\* Heu::run_command for position p: the result and the subprocess spawned.
run_command(p, fault) ==
    IF config.use_tester
    THEN LET t == command_from_str(config.tester, "tester", p)
             b == parse_command_parts(config.bin, "bin", p)
         IN  IF ~t.ok THEN [out |-> t, spawn |-> {}]
             ELSE IF ~b.ok THEN [out |-> b, spawn |-> {}]
             ELSE IF fault = "open"
             THEN [out |-> Err("os error", "open", p), spawn |-> {}]
             ELSE IF fault = "spawn"
             THEN [out |-> Err("os error", "spawn", p), spawn |-> {}]
             ELSE IF fault = "pipe"
             THEN [out |-> Err("os error", "pipe", p), spawn |-> {<<"tester", p>>}]
             ELSE [out |-> Ok(SolOut(CaseAt(p))), spawn |-> {<<"tester", p>>}]
    ELSE LET b == command_from_str(config.bin, "bin", p)
         IN  IF ~b.ok THEN [out |-> b, spawn |-> {}]
             ELSE IF fault = "spawn"
             THEN [out |-> Err("os error", "spawn", p), spawn |-> {}]
             ELSE IF fault = "pipe"
             THEN [out |-> Err("os error", "pipe", p), spawn |-> {<<"bin", p>>}]
             ELSE [out |-> Ok(SolOut(CaseAt(p))), spawn |-> {<<"bin", p>>}]

\* execute_case for position p up to File::create, the first half of
\* fs::write, which truncates the output file: the result so far, the
\* subprocess spawned, whether the directory and the empty file were made.
execute_case_begin(p, fault) ==
    IF fault = "mkdir"
    THEN [out |-> Err("os error", "mkdir", p), spawn |-> {}, dir |-> FALSE,
          file |-> FALSE]
    ELSE IF fault = "read"
    THEN [out |-> Err("os error", "read", p), spawn |-> {}, dir |-> TRUE,
          file |-> FALSE]
    ELSE LET r == run_command(p, fault)
         IN  IF ~r.out.ok
             THEN [out |-> r.out, spawn |-> r.spawn, dir |-> TRUE, file |-> FALSE]
             ELSE IF fault = "create"
             THEN [out |-> Err("os error", "create", p), spawn |-> r.spawn,
                   dir |-> TRUE, file |-> FALSE]
             ELSE [out |-> r.out, spawn |-> r.spawn, dir |-> TRUE, file |-> TRUE]

\* Variant of Slot that files a result under its case index.
SlotByCase(p) == CaseAt(p)

\* The index enumerate() gives the case at position p: the slot of its result.
Slot(p) == p

\* Variant of Send over a rendezvous channel whose Receiver outlives the
\* receive loop: a send completes only when the aggregator is there to take
\* the message.
SendRendezvous(p, result) ==
    /\ rxOpen
    /\ chan = <<>>
    /\ res' = [res EXCEPT ![p] = result]
    /\ wpc' = [wpc EXCEPT ![p] = "sent"]
    /\ chan' = Append(chan, <<Slot(p), result>>)
    /\ firstErr' = IF ~result.ok /\ firstErr = None THEN result ELSE firstErr

\* execute_case returned result for position p and the closure of for_each
\* ends with let _ = tx.send((i, result)): a send to a dropped Receiver is
\* ignored.
Send(p, result) ==
    /\ res' = [res EXCEPT ![p] = result]
    /\ wpc' = [wpc EXCEPT ![p] = "sent"]
    /\ IF rxOpen
       THEN /\ chan' = Append(chan, <<Slot(p), result>>)
            /\ firstErr' = IF ~result.ok /\ firstErr = None THEN result
                           ELSE firstErr
       ELSE UNCHANGED <<chan, firstErr>>

\* The positions a worker thread is executing.
Busy == {p \in Positions : wpc[p] \notin {"idle", "sent"}}

\* Variant of StartCase that starts no case once the Receiver is gone.
StartCaseCancellable(p) ==
    /\ pc = "evaluating"
    /\ pool = "installed"
    /\ wpc[p] = "idle"
    /\ rxOpen
    /\ Cardinality(Busy) < config.threads
    /\ \E fault \in StartFaults :
         \E b \in {execute_case_begin(p, fault)} :
             /\ fault = "open" => config.use_tester
             /\ fault # "none" => CanFail
             /\ faults' = Refused(fault = "none")
             /\ execs' = [execs EXCEPT ![p] = @ + 1]
             /\ dirs' = (dirs \/ b.dir)
             /\ spawned' = spawned \cup b.spawn
             /\ files' = IF b.file THEN [files EXCEPT ![CaseAt(p)] = Empty]
                         ELSE files
             /\ IF b.out.ok
                THEN /\ wpc' = [wpc EXCEPT ![p] = "trunc"]
                     /\ UNCHANGED <<res, chan, firstErr>>
                ELSE Send(p, b.out)
    /\ UNCHANGED <<mainVars, heuVars, aggVars, pool, txOpen, rxOpen>>
    /\ UNCHANGED call

\* A worker takes position p and runs it up to the truncated output file.
StartCase(p) ==
    /\ pc = "evaluating"
    /\ pool = "installed"
    /\ wpc[p] = "idle"
    /\ Cardinality(Busy) < config.threads
    /\ \E fault \in StartFaults :
         \E b \in {execute_case_begin(p, fault)} :
             /\ fault = "open" => config.use_tester
             /\ fault # "none" => CanFail
             /\ faults' = Refused(fault = "none")
             /\ execs' = [execs EXCEPT ![p] = @ + 1]
             /\ dirs' = (dirs \/ b.dir)
             /\ spawned' = spawned \cup b.spawn
             /\ files' = IF b.file THEN [files EXCEPT ![CaseAt(p)] = Empty]
                         ELSE files
             /\ IF b.out.ok
                THEN /\ wpc' = [wpc EXCEPT ![p] = "trunc"]
                     /\ UNCHANGED <<res, chan, firstErr>>
                ELSE Send(p, b.out)
    /\ UNCHANGED <<mainVars, heuVars, aggVars, pool, txOpen, rxOpen>>
    /\ UNCHANGED call

\* fs::write, second half: write_all of the captured standard output.
WriteAll(p) ==
    /\ pc = "evaluating"
    /\ wpc[p] = "trunc"
    /\ \E ok \in BOOLEAN :
         /\ ~ok => CanFail
         /\ faults' = Refused(ok)
         /\ IF ok
            THEN /\ files' = [files EXCEPT ![CaseAt(p)] = SolOut(CaseAt(p))]
                 /\ wpc' = [wpc EXCEPT ![p] = "written"]
                 /\ UNCHANGED <<res, chan, firstErr>>
            ELSE /\ Send(p, Err("os error", "write", p))
                 /\ UNCHANGED files
    /\ UNCHANGED <<mainVars, heuVars, aggVars, spawned, dirs, execs, pool,
                   txOpen, rxOpen>>
    /\ UNCHANGED call

\* Heu::exe_vis for position p.
exe_vis(p, ok) ==
    LET cmd == command_from_str(config.vis, "vis", p)
    IN  IF ~cmd.ok THEN [out |-> cmd, spawn |-> {}]
        ELSE IF ~ok THEN [out |-> Err("os error", "spawn vis", p), spawn |-> {}]
        ELSE [out |-> Ok(VisOut(CaseAt(p), files[CaseAt(p)])),
              spawn |-> {<<"vis", p>>}]

\* The rest of execute_case: exe_vis(..)? and CaseResult::new.
Visualize(p) ==
    /\ pc = "evaluating"
    /\ wpc[p] = "written"
    /\ \E ok \in BOOLEAN :
         \E v \in {exe_vis(p, ok)} :
             /\ ~ok => CanFail /\ command_from_str(config.vis, "vis", p).ok
             /\ faults' = Refused(ok)
             /\ spawned' = spawned \cup v.spawn
             /\ \E result \in {IF v.out.ok
                               THEN Ok(CaseResult(p, CaseAt(p), v.out.val,
                                                  SolErr(CaseAt(p))))
                               ELSE v.out} :
                  Send(p, result)
    /\ UNCHANGED <<mainVars, heuVars, aggVars, dirs, files, execs, pool,
                   txOpen, rxOpen>>
    /\ UNCHANGED call

\* for_each has run every position: pool.install returns and the Sender,
\* moved into run, is dropped.
PoolFinish ==
    /\ pc = "evaluating"
    /\ pool = "installed"
    /\ \A p \in Positions : wpc[p] = "sent"
    /\ pool' = "done"
    /\ txOpen' = FALSE
    /\ UNCHANGED <<mainVars, heuVars, aggVars, workVars, chan, rxOpen, firstErr,
                   faults>>
    /\ UNCHANGED call

\* ---------------------------------------------------- the receiver thread
\* Variant of Flush that steps over an empty slot when a later slot is
\* filled.
RECURSIVE FlushSkipsPending(_, _, _, _, _)
FlushSkipsPending(b, nx, tot, lst, out) ==
    IF nx < N /\ b[nx].ok
    THEN FlushSkipsPending([b EXCEPT ![nx] = None], nx + 1,
                           tot + b[nx].val.score, b[nx],
                           Append(out, ResultLine(b[nx].val)))
    ELSE IF nx < N /\ \E q \in (nx + 1)..(N - 1) : b[q].ok
    THEN FlushSkipsPending(b, nx + 1, tot, lst, out)
    ELSE [buf |-> b, next |-> nx, total |-> tot, last |-> lst, out |-> out]

\* Variant of Flush that remembers in `last` the first result it emitted
\* instead of the latest.
RECURSIVE FlushKeepsFirst(_, _, _, _, _)
FlushKeepsFirst(b, nx, tot, lst, out) ==
    IF nx < N /\ b[nx].ok
    THEN FlushKeepsFirst([b EXCEPT ![nx] = None], nx + 1,
                         tot + b[nx].val.score,
                         IF lst.ok THEN lst ELSE b[nx],
                         Append(out, ResultLine(b[nx].val)))
    ELSE [buf |-> b, next |-> nx, total |-> tot, last |-> lst, out |-> out]

\* Variant of Flush with `if` in place of `while`: at most one result is
\* emitted per message.
FlushOnce(b, nx, tot, lst, out) ==
    IF nx < N /\ b[nx].ok
    THEN [buf |-> [b EXCEPT ![nx] = None], next |-> nx + 1,
          total |-> tot + b[nx].val.score, last |-> b[nx],
          out |-> Append(out, ResultLine(b[nx].val))]
    ELSE [buf |-> b, next |-> nx, total |-> tot, last |-> lst, out |-> out]

\* The while loop after buf[i] = Some(..): print, add, remember, advance.
\* total is a u64; the sums of the model stay far below 2^64.
RECURSIVE Flush(_, _, _, _, _)
Flush(b, nx, tot, lst, out) ==
    IF nx < N /\ b[nx].ok
    THEN Flush([b EXCEPT ![nx] = None], nx + 1, tot + b[nx].val.score, b[nx],
               Append(out, ResultLine(b[nx].val)))
    ELSE [buf |-> b, next |-> nx, total |-> tot, last |-> lst, out |-> out]

\* Variant of Store without the reorder buffer: a result is emitted when
\* it arrives.
StoreUnordered(i, result) ==
    [buf |-> buf, next |-> next + 1, total |-> total + result.val.score,
     last |-> result, out |-> Append(stdout, ResultLine(result.val))]

\* Variant of Store with the two statements swapped: the flush runs on the
\* buffer as it was and the arrival is stored afterwards.
StoreAfterFlush(i, result) ==
    LET f == Flush(buf, next, total, last, stdout)
    IN  [f EXCEPT !.buf = [f.buf EXCEPT ![i] = result]]

\* buf[i] = Some(result?) and the flush that follows it.
Store(i, result) == Flush([buf EXCEPT ![i] = result], next, total, last, stdout)

\* Variant of AggRecv without the `?`: an error message is dropped and the
\* loop goes on.
AggRecvSkipErrors ==
    /\ aggPc = "recv"
    /\ chan # <<>>
    /\ LET i == Head(chan)[1]
           result == Head(chan)[2]
       IN  IF ~result.ok
           THEN UNCHANGED <<buf, next, total, last, stdout>>
           ELSE \E f \in {Store(i, result)} :
                    /\ buf' = f.buf
                    /\ next' = f.next
                    /\ total' = f.total
                    /\ last' = f.last
                    /\ stdout' = f.out
    /\ chan' = Tail(chan)
    /\ UNCHANGED <<aggPc, aggRet, rxOpen>>
    /\ UNCHANGED <<mainVars, heuVars, workVars, pool, txOpen, clipboard, clips,
                   firstErr, faults>>
    /\ UNCHANGED call

\* Variant of AggRecv that, on an error message, prints the results still
\* lying in the buffer before it stops.
AggRecvDrainOnError ==
    /\ aggPc = "recv"
    /\ chan # <<>>
    /\ LET i == Head(chan)[1]
           result == Head(chan)[2]
           IsFilled(q) == buf[q].ok
           filled == SelectSeq([k \in 1..N |-> k - 1], IsFilled)
       IN  IF ~result.ok
           THEN /\ aggPc' = "err"
                /\ aggRet' = result
                /\ rxOpen' = FALSE
                /\ chan' = <<>>
                /\ stdout' = stdout \o [k \in 1..Len(filled) |->
                                            ResultLine(buf[filled[k]].val)]
                /\ UNCHANGED <<buf, next, total, last>>
           ELSE \E f \in {Store(i, result)} :
                    /\ buf' = f.buf
                    /\ next' = f.next
                    /\ total' = f.total
                    /\ last' = f.last
                    /\ stdout' = f.out
                    /\ chan' = Tail(chan)
                    /\ UNCHANGED <<aggPc, aggRet, rxOpen>>
    /\ UNCHANGED <<mainVars, heuVars, workVars, pool, txOpen, clipboard, clips,
                   firstErr, faults>>
    /\ UNCHANGED call

\* One iteration of `for (i, result) in rx`.
AggRecv ==
    /\ aggPc = "recv"
    /\ chan # <<>>
    /\ LET i == Head(chan)[1]
           result == Head(chan)[2]
       IN  IF ~result.ok
           THEN /\ aggPc' = "err"
                /\ aggRet' = result
                /\ rxOpen' = FALSE
                /\ chan' = <<>>
                /\ UNCHANGED <<buf, next, total, last, stdout>>
           ELSE \E f \in {Store(i, result)} :
                    /\ buf' = f.buf
                    /\ next' = f.next
                    /\ total' = f.total
                    /\ last' = f.last
                    /\ stdout' = f.out
                    /\ chan' = Tail(chan)
                    /\ UNCHANGED <<aggPc, aggRet, rxOpen>>
    /\ UNCHANGED <<mainVars, heuVars, workVars, pool, txOpen, clipboard, clips,
                   firstErr, faults>>
    /\ UNCHANGED call

\* CaseResult::clip: the output file's content goes to the clipboard unless
\* the file cannot be read or the clipboard cannot be opened or set.
clip(r, works) == IF works THEN files[r.outf] ELSE clipboard

\* The channel is empty and every Sender is gone: the for loop ends, the
\* last result is clipped and the TOTAL line printed.
AggClose ==
    /\ aggPc = "recv"
    /\ chan = <<>>
    /\ ~txOpen
    /\ IF last.ok
       THEN /\ \E works \in BOOLEAN : clipboard' = clip(last.val, works)
            /\ clips' = Append(clips, last.val.pos)
       ELSE UNCHANGED <<clipboard, clips>>
    /\ stdout' = Append(stdout, TotalLine(total))
    /\ aggPc' = "ok"
    /\ aggRet' = Ok("unit")
    /\ rxOpen' = FALSE
    /\ UNCHANGED <<mainVars, heuVars, workVars, pool, chan, txOpen, buf, next,
                   total, last, firstErr, faults>>
    /\ UNCHANGED call

\* Variant of Join that returns as soon as the receiver thread has ended,
\* without waiting for pool.install.
JoinEarly ==
    /\ pc = "evaluating"
    /\ aggPc \in {"ok", "err"}
    /\ pc' = "returned"
    /\ ret' = IF pool = "failed" THEN Err("pool", "pool", -1) ELSE aggRet
    /\ stages' = Finish(ret')
    /\ UNCHANGED <<exit, stderr, roNext, buildExit, heuVars, aggVars, workVars,
                   pool, chan, txOpen, rxOpen, firstErr, faults>>
    /\ UNCHANGED call

\* The scope ends: pool.install has returned (or the pool was not built) and
\* the receiver thread is joined.
Join ==
    /\ pc = "evaluating"
    /\ pool \in {"done", "failed"}
    /\ aggPc \in {"ok", "err"}
    /\ pc' = "returned"
    /\ ret' = IF pool = "failed" THEN Err("pool", "pool", -1) ELSE aggRet
    /\ stages' = Finish(ret')
    /\ UNCHANGED <<exit, stderr, roNext, buildExit, heuVars, aggVars, workVars,
                   pool, chan, txOpen, rxOpen, firstErr, faults>>
    /\ UNCHANGED call

\* Variant of Exit that reports the error and leaves with status 0.
ExitZero ==
    /\ pc = "returned"
    /\ pc' = "exited"
    /\ exit' = 0
    /\ stderr' = IF ret.ok THEN stderr
                 ELSE Append(stderr, <<"Error: ", ret.val[1]>>)
    /\ UNCHANGED <<ret, roNext, stages, buildExit, heuVars, aggVars, workVars,
                   pool, chan, txOpen, rxOpen, firstErr, faults>>
    /\ UNCHANGED call

\* ----------------------------------------------------------------- main
\* if let Err(e) = heu.execute() { eprintln!("Error: {}", e); exit(1) }
Exit ==
    /\ pc = "returned"
    /\ pc' = "exited"
    /\ IF ret.ok
       THEN exit' = 0 /\ UNCHANGED stderr
       ELSE exit' = 1 /\ stderr' = Append(stderr, <<"Error: ", ret.val[1]>>)
    /\ UNCHANGED <<ret, roNext, stages, buildExit, heuVars, aggVars, workVars,
                   pool, chan, txOpen, rxOpen, firstErr, faults>>
    /\ UNCHANGED call

Next ==
    \/ New
    \/ Build
    \/ EnterRunOnly
    \/ RunOnlyStep
    \/ EnterEvaluating
    \/ PoolBuild
    \/ \E p \in Positions : StartCase(p)
    \/ \E p \in Positions : WriteAll(p)
    \/ \E p \in Positions : Visualize(p)
    \/ PoolFinish
    \/ AggRecv
    \/ AggClose
    \/ Join
    \/ Exit

Spec == Init /\ [][Next]_vars

\* The three kinds of thread: the main thread (which also runs the
\* subprocesses of the build and of run-only mode to their end), the
\* workers of the pool, and the receiver thread.
MainThread ==
    \/ New
    \/ Build
    \/ EnterRunOnly
    \/ RunOnlyStep
    \/ EnterEvaluating
    \/ PoolBuild
    \/ PoolFinish
    \/ Join
    \/ Exit

Workers ==
    \E p \in Positions : StartCase(p) \/ WriteAll(p) \/ Visualize(p)

Receiver == AggRecv \/ AggClose

\* Every subprocess terminates and every thread that can take a step is
\* eventually scheduled.
FairSpec ==
    /\ Init
    /\ [][Next]_vars
    /\ WF_vars(MainThread)
    /\ WF_vars(Workers)
    /\ WF_vars(Receiver)

\* ------------------------------------------- the functions on their own
\* parse_cases, CaseResult::parse_score and CaseResult::lookup_comments_from
\* applied to arguments of their own, outside a run of the harness.

\* Selector tokens: indices, a signed index, ranges (one reversed), an
\* index too large for u32, and malformed tokens of every kind.
PureTokens ==
    {<<"0">>, <<"1">>, <<"+", "1">>, <<"0", "-", "1">>, <<"1", "-", "0">>,
     <<"1", "-", "1">>, <<"x">>, <<>>, <<"-">>, <<"1", "-">>, <<"-", "1">>,
     <<"0", "-", "1", "-", "0">>, <<"0", "-", "x">>,
     <<"4", "2", "9", "4", "9", "6", "7", "2", "9", "6">>}

\* Lines of visualizer output as the score pattern sees them: no match, a
\* match without group 1, numbers, a signed number, text that is no
\* number, the empty text, a number too large for u64.
ScoreLines ==
    {NoMatch, [m |-> TRUE, g |-> FALSE, text |-> <<>>], Capture(<<"4", "2">>),
     Capture(<<"7">>), Capture(<<"+", "5">>), Capture(<<"x">>), Capture(<<>>),
     Capture(Append(SubSeq(U64Max, 1, 19), "6"))}

\* Lines of standard error as the comment pattern sees them.
CommentLines ==
    {NoMatch, [m |-> TRUE, g |-> FALSE, text |-> <<>>], Capture(<<"a">>),
     Capture(<<"b", "c">>), Capture(<<>>), Capture(<<"/">>)}

\* The sequences over S of the lengths 0..n.
SeqsUpTo(S, n) == UNION {[1..k -> S] : k \in 0..n}

Calls ==
    {[fn |-> "parse_cases", arg |-> a, out |-> <<>>, done |-> FALSE] :
        a \in SeqsUpTo(PureTokens, 2)}
    \cup {[fn |-> "parse_score", arg |-> a, out |-> <<>>, done |-> FALSE] :
              a \in SeqsUpTo(ScoreLines, 3)}
    \cup {[fn |-> "lookup_comments_from", arg |-> a, out |-> <<>>,
           done |-> FALSE] : a \in SeqsUpTo(CommentLines, 3)}

InitPure ==
    /\ pc = "pure"
    /\ config = CHOOSE c \in Configs : Faults(c) = 0
    /\ cases = <<>>
    /\ regexes = [score |-> "compiled", comment |-> "compiled"]
    /\ ret = None
    /\ exit = -1
    /\ stdout = <<>>
    /\ stderr = <<>>
    /\ spawned = {}
    /\ dirs = FALSE
    /\ files = [c \in CaseIndices |-> Absent]
    /\ roNext = 0
    /\ pool = "none"
    /\ wpc = <<>>
    /\ res = <<>>
    /\ chan = <<>>
    /\ txOpen = FALSE
    /\ rxOpen = FALSE
    /\ aggPc = "none"
    /\ aggRet = None
    /\ buf = <<>>
    /\ next = 0
    /\ total = 0
    /\ last = None
    /\ clipboard = Absent
    /\ clips = <<>>
    /\ firstErr = None
    /\ stages = <<"Idle">>
    /\ buildExit = -1
    /\ execs = <<>>
    /\ faults = 0
    /\ call \in Calls

Returns(out) == call' = [call EXCEPT !.out = out, !.done = TRUE]

CallParseCases ==
    /\ call.fn = "parse_cases"
    /\ ~call.done
    /\ Returns(parse_cases(call.arg))
    /\ UNCHANGED runVars

CallParseScore ==
    /\ call.fn = "parse_score"
    /\ ~call.done
    /\ Returns(parse_score(call.arg))
    /\ UNCHANGED runVars

CallLookupComments ==
    /\ call.fn = "lookup_comments_from"
    /\ ~call.done
    /\ Returns(lookup_comments_from(call.arg))
    /\ UNCHANGED runVars

NextPure == CallParseCases \/ CallParseScore \/ CallLookupComments

SpecPure == InitPure /\ [][NextPure]_vars

\* ------------------------------------------------------------ properties
IsCaseLine(l) == l.kind = "case"
IsTotalLine(l) == l.kind = "total"

\* The per-case result lines printed so far, in the order they were printed.
Emitted == SelectSeq(stdout, IsCaseLine)

\* The number a printed score stands for: the commas go, the digits are read.
ScoreOf(l) == DecimalValue(SelectSeq(l.score, IsDigit))

RECURSIVE SumScores(_)
SumScores(lines) ==
    IF lines = <<>> THEN 0 ELSE ScoreOf(Head(lines)) + SumScores(Tail(lines))

\* The positions whose execute_case returned an error.
Failed == {p \in DOMAIN res : ~res[p].ok /\ res[p] # None}

\* The receiver thread ended its loop normally and every position has run.
CleanCompletion == aggPc = "ok" /\ pool = "done"

\* C1, state part: the k-th result line printed is the line of the result
\* of position k-1, whatever order the workers finished in.
C1_Ascending ==
    \A k \in 1..Len(Emitted) :
        /\ Emitted[k].pos = k - 1
        /\ k - 1 \in DOMAIN res
        /\ res[k - 1].ok
        /\ Emitted[k] = ResultLine(res[k - 1].val)

\* C1: in evaluating mode the per-case result lines are emitted in strictly
\* ascending resolved-sequence position: the k-th emitted line is always the
\* result of position k-1, a printed line is never taken back or reordered,
\* and a step prints the lines of consecutive positions only.
C1_EmissionOrder ==
    /\ []C1_Ascending
    /\ [][/\ Len(stdout') >= Len(stdout)
          /\ SubSeq(stdout', 1, Len(stdout)) = stdout]_vars

\* C1 witness: position 2 finished and arrived before position 1 and is held
\* back in the buffer while only position 0 has been emitted.
C1_Witness ==
    /\ pc = "evaluating"
    /\ N = 3
    /\ config.threads >= 2
    /\ Len(Emitted) = 1
    /\ next = 1
    /\ buf[2].ok
    /\ ~buf[1].ok

\* C2: at every moment the running total is the sum of the scores emitted
\* so far; on clean completion of an evaluating batch over N cases the
\* output is the N lines of the positions 0..N-1, each once, followed by
\* exactly one TOTAL line whose value is the sum of the N emitted scores;
\* for N = 0 only TOTAL=0 is printed.
C2_TotalIsSum ==
    /\ aggPc # "none" => total = SumScores(Emitted)
    /\ CleanCompletion =>
          /\ Len(stdout) = N + 1
          /\ \A k \in 1..N : IsCaseLine(stdout[k]) /\ stdout[k].pos = k - 1
          /\ stdout[N + 1] = TotalLine(SumScores(Emitted))
          /\ ScoreOf(stdout[N + 1]) = SumScores(SubSeq(stdout, 1, N))
          /\ N = 0 => stdout = <<TotalLine(0)>> /\ TotalLine(0).score = <<"0">>
    /\ ~CleanCompletion /\ pool # "failed" =>
          \A k \in 1..Len(stdout) : ~IsTotalLine(stdout[k])

\* C2 witness: a batch of three cases completed cleanly with a total that
\* takes a comma.
C2_Witness ==
    /\ pc = "exited"
    /\ exit = 0
    /\ CleanCompletion
    /\ N = 3
    /\ total >= 1000
    /\ Len(stdout) = 4

\* C3, state part: once the receiver thread has met an error it has
\* returned the first error that entered the channel, and there is no TOTAL
\* line and no clipboard copy; and execute returns that error.
C3_Stopped ==
    /\ aggPc = "err" =>
          /\ aggRet = firstErr
          /\ firstErr # None
          /\ ~rxOpen
          /\ \A k \in 1..Len(stdout) : ~IsTotalLine(stdout[k])
          /\ clips = <<>>
          /\ clipboard = Absent
    /\ firstErr # None /\ pc \in {"returned", "exited"} => ret = firstErr
    /\ firstErr # None /\ aggPc \in {"ok", "err"} => aggPc = "err"

\* C3: the first error the aggregator receives, in arrival order, becomes
\* the batch's returned error, and on receiving it the aggregator stops:
\* from then on no result line and no TOTAL line is printed and nothing is
\* copied to the clipboard, whatever is buffered or arrives later.
C3_FirstErrorStops ==
    /\ []C3_Stopped
    /\ [][aggPc = "err" =>
            UNCHANGED <<stdout, clipboard, clips, aggRet, buf, next, total>>]_vars

\* C3 witness: the error of position 2 was received while the result of
\* position 1 lay in the buffer and position 0 had not been sent yet; the
\* batch returned that error and nothing was ever printed.
C3_Witness ==
    /\ pc = "exited"
    /\ N = 3
    /\ ret = firstErr
    /\ ret.val[3] = 2
    /\ buf[1].ok
    /\ stdout = <<>>
    /\ res[0].ok

\* The error of an operation the environment refused.
IsIoError(r) == ~r.ok /\ r.val[1] = "os error"

\* C4 as stated: once an I/O error has occurred in one case, no case that
\* had not yet started is started.
C4_NoStartAfterError ==
    [][(\E q \in DOMAIN res : IsIoError(res[q])) =>
          \A p \in DOMAIN wpc : wpc[p] = "idle" => wpc'[p] = "idle"]_vars

\* C4, amended: a fatal I/O error in one case makes the batch fail with the
\* first error the aggregator received, but nothing is cancelled: the
\* cases that had not yet started are still started, and the batch returns
\* to its caller only after every position has been executed, once, and its
\* result sent.
C4_FailsAfterAllRan ==
    /\ Failed # {} /\ pc \in {"returned", "exited"} =>
          /\ ~ret.ok
          /\ ret = firstErr
          /\ ret \in {res[q] : q \in Failed}
          /\ pool = "done"
          /\ \A p \in Positions : wpc[p] = "sent" /\ execs[p] = 1
    /\ aggPc = "err" /\ pool = "installed" /\ pc = "evaluating" =>
          \A p \in Positions :
              wpc[p] = "idle" /\ Cardinality(Busy) < config.threads =>
                  ENABLED StartCase(p)

\* C4 witness: with one worker thread, the error of position 0 has been
\* received by the aggregator and a later position is being executed.
C4_Witness ==
    /\ pc = "evaluating"
    /\ config.threads = 1
    /\ N = 3
    /\ IsIoError(res[0])
    /\ aggPc = "err"
    /\ wpc[1] = "sent"
    /\ wpc[2] = "written"

\* The lines printed for position p.
LinesOf(p) == {k \in 1..Len(Emitted) : Emitted[k].pos = p}

\* The subprocesses spawned for position p.
SpawnedFor(p) == {sp \in spawned : sp[2] = p}

\* The solution's subprocess of position p.
Solution(p) == <<IF config.use_tester THEN "tester" ELSE "bin", p>>

\* C5: a case index that stands at two positions is executed once per
\* position, and on clean completion each position has its own result line,
\* at its own place in the emission order, naming the case it ran; no run
\* replaces, merges with or suppresses the other.
C5_DuplicatesRunTwice ==
    /\ \A p \in DOMAIN execs : execs[p] <= 1 /\ Cardinality(LinesOf(p)) <= 1
    /\ CleanCompletion =>
          \A p \in Positions :
              /\ execs[p] = 1
              /\ Solution(p) \in spawned
              /\ <<"vis", p>> \in spawned
              /\ LinesOf(p) = {p + 1}
              /\ Emitted[p + 1].case = CaseAt(p)

\* C5 witness: the resolved sequence 0, 1, 0 completed cleanly with three
\* result lines, the first and the third for case 0.
C5_Witness ==
    /\ CleanCompletion
    /\ cases = <<0, 1, 0>>
    /\ Len(Emitted) = 3
    /\ Emitted[1].case = 0
    /\ Emitted[3].case = 0
    /\ Emitted[3].pos = 2

\* The score a case gets when nothing interferes with its run.
ReferenceScore(c) == parse_score(VisOut(c, SolOut(c)))

RECURSIVE ReferenceTotal(_)
ReferenceTotal(cs) ==
    IF cs = <<>> THEN 0 ELSE ReferenceScore(Head(cs)) + ReferenceTotal(Tail(cs))

\* C6: with a deterministic solution and a deterministic visualizer every
\* evaluating run yields the same score at every position, the same total
\* and the same final output files, whatever the worker count and the
\* interleaving: each successful result carries the score of its case, and
\* a cleanly completed batch has the total of these scores and the
\* solution's output in each file.
C6_Idempotent ==
    /\ \A p \in DOMAIN res :
          res[p].ok => res[p].val.score = ReferenceScore(CaseAt(p))
    /\ CleanCompletion =>
          /\ total = ReferenceTotal(cases)
          /\ \A p \in Positions : files[CaseAt(p)] = SolOut(CaseAt(p))

\* C6, the two outcomes: a batch that ran case 0 at two positions completed
\* cleanly with a score of 0 at the first of them.
C6_Diverged ==
    /\ CleanCompletion
    /\ cases = <<0, 0>>
    /\ faults = 0
    /\ res[0].val.score = 0
    /\ res[1].val.score = ReferenceScore(0)

InvalidPattern ==
    config.score_regex # "valid" \/ config.comment_regex # "valid"

NoSideEffects ==
    /\ spawned = {}
    /\ ~dirs
    /\ \A c \in DOMAIN files : files[c] = Absent
    /\ stdout = <<>>
    /\ \A p \in DOMAIN execs : execs[p] = 0

\* C7, state part: with an invalid pattern the run never gets past Heu::new
\* and has no side effect; with both patterns valid the harness is
\* constructed with both patterns compiled.
C7_Rejected ==
    /\ InvalidPattern =>
          /\ pc \in {"start", "exited"}
          /\ pc = "exited" => exit = 101 /\ Len(stderr) = 1
                                /\ stderr[1][1] = "panic"
          /\ buildExit = -1
          /\ stages = <<"Idle">>
          /\ NoSideEffects
    /\ ~InvalidPattern /\ pc # "start" =>
          regexes = [score |-> "compiled", comment |-> "compiled"]

\* C7: an invalid score or comment pattern is rejected at Heu::new, before
\* the build command runs, before any subprocess is spawned and before any
\* output file or directory is written; with both patterns valid,
\* construction succeeds and the compiled patterns never change afterwards.
C7_PatternsAtConstruction ==
    /\ []C7_Rejected
    /\ [][pc # "start" => UNCHANGED regexes]_vars

\* C7 witness: a run with build enabled and an invalid comment pattern has
\* ended in Heu::new.
C7_Witness ==
    /\ pc = "exited"
    /\ config.build_enable
    /\ config.comment_regex = "invalid"
    /\ config.score_regex = "valid"

IsMalformed(r) ==
    ~r.ok /\ r.val[1] \in {"invalid command", "empty command"}

CaseSubprocesses == {sp \in spawned : sp[1] \in {"bin", "tester", "vis"}}

\* C8 as stated: when a malformed solution, tester or visualizer command is
\* reported, no case has started, no subprocess of any case has been
\* spawned and no output file has been written.
C8_BeforeAnyCase ==
    IsMalformed(ret) /\ ret.val[2] \in {"bin", "tester", "vis"} =>
        /\ \A p \in DOMAIN execs : execs[p] = 0
        /\ CaseSubprocesses = {}
        /\ \A c \in DOMAIN files : files[c] = Absent

\* C8, amended: a command string is split and validated when the command
\* is about to be run.  A malformed build command (build enabled) fails the
\* batch before any case starts.  In run-only mode a malformed solution
\* command fails the batch at the first case, before any subprocess.  In
\* evaluating mode a malformed tester or solution command is raised inside
\* each case, after the output directory was created and the input read
\* and before the case spawns a subprocess or writes its output file; a
\* malformed visualizer command is raised only after the case's solution
\* ran and its output file was written, before the visualizer is spawned.
C8_RaisedWhereUsed ==
    /\ \A p \in DOMAIN res :
          IsMalformed(res[p]) =>
              /\ res[p].val[3] = p
              /\ execs[p] = 1
              /\ dirs
              /\ <<"vis", p>> \notin spawned
              /\ \/ /\ res[p].val[2] = "tester"
                    /\ config.use_tester /\ config.tester # "ok"
                    /\ SpawnedFor(p) = {}
                    /\ files[CaseAt(p)] = Absent
                 \/ /\ res[p].val[2] = "bin"
                    /\ config.bin # "ok"
                    /\ SpawnedFor(p) = {}
                    /\ files[CaseAt(p)] = Absent
                 \/ /\ res[p].val[2] = "vis"
                    /\ config.vis # "ok"
                    /\ SpawnedFor(p) = {Solution(p)}
                    /\ files[CaseAt(p)] # Absent
    /\ IsMalformed(ret) =>
          \/ /\ ret.val[2] = "build_command"
             /\ config.build_enable
             /\ stages = <<"Idle", "Building", "Failed">>
             /\ NoSideEffects
          \/ /\ ret.val[2] = "bin"
             /\ config.no_evaluate
             /\ ret.val[3] = 0
             /\ N > 0
             /\ CaseSubprocesses = {}
          \/ /\ ~config.no_evaluate
             /\ ret.val[3] \in DOMAIN res
             /\ ret = res[ret.val[3]]
    /\ pc = "exited" /\ exit = 0 =>
          /\ config.build_enable => config.build_command = "ok"
          /\ N > 0 /\ (config.no_evaluate \/ ~config.use_tester) =>
                config.bin = "ok"
          /\ N > 0 /\ ~config.no_evaluate =>
                /\ config.vis = "ok"
                /\ config.use_tester => config.tester = "ok" /\ config.bin = "ok"

\* C8 witness: a malformed visualizer command was reported after the
\* solution of the failing position had been spawned and its output file
\* written.
C8_Witness ==
    /\ pc = "exited"
    /\ exit = 1
    /\ IsMalformed(ret)
    /\ ret.val[2] = "vis"
    /\ <<"bin", ret.val[3]>> \in spawned
    /\ files[CaseAt(ret.val[3])] = SolOut(CaseAt(ret.val[3]))

IsErrorLine(l) == l[1] = "Error: "

Modes == {"Evaluating", "RunOnly"}

\* The stage sequences Idle -> Building -> (Evaluating | RunOnly) ->
\* Completed allows, Failed taking the place of any step.
StagePaths ==
    LET full == {<<"Idle", "Building", m, "Completed">> : m \in Modes}
        prefixes == {SubSeq(f, 1, k) : f \in full, k \in 1..4}
    IN  prefixes \cup {Append(SubSeq(f, 1, k), "Failed") : f \in full,
                                                           k \in 1..3}

\* Something of a case has been executed.
CaseActivity ==
    \/ CaseSubprocesses # {}
    \/ \E p \in DOMAIN execs : execs[p] > 0
    \/ roNext > 0
    \/ dirs
    \/ stdout # <<>>

\* C10: the batch follows Idle -> Building -> (Evaluating | RunOnly) ->
\* Completed, with Failed from any stage; no case is executed before the
\* build stage has finished; with build enabled cases run only after the
\* build command exited with status zero, and a non-zero build exit fails
\* the batch with no case executed; with build disabled the build command
\* is never run; RunOnly is entered exactly when no_evaluate is set,
\* Evaluating otherwise, never both.
C10_Lifecycle ==
    /\ stages \in StagePaths
    /\ CaseActivity =>
          /\ Len(stages) >= 3
          /\ stages[3] \in Modes
          /\ pc \in {"runonly", "evaluating", "returned", "exited"}
          /\ config.build_enable => <<"build", -1>> \in spawned /\ buildExit = 0
    /\ buildExit = 1 =>
          /\ pc \in {"returned", "exited"}
          /\ ~ret.ok
          /\ stages = <<"Idle", "Building", "Failed">>
          /\ ~CaseActivity
    /\ ~config.build_enable => <<"build", -1>> \notin spawned /\ buildExit = -1
    /\ Len(stages) >= 3 /\ stages[3] \in Modes =>
          /\ stages[3] = "RunOnly" <=> config.no_evaluate
          /\ stages[3] = "Evaluating" <=> ~config.no_evaluate
          /\ pc = "runonly" <=> stages = <<"Idle", "Building", "RunOnly">>
          /\ pc = "evaluating" <=> stages = <<"Idle", "Building", "Evaluating">>
    /\ pc \in {"returned", "exited"} /\ ~InvalidPattern =>
          stages[Len(stages)] = IF ret.ok THEN "Completed" ELSE "Failed"

\* C10 witness: with build enabled and the build command exited with
\* status zero, an evaluating batch is executing a case.
C10_Witness ==
    /\ pc = "evaluating"
    /\ config.build_enable
    /\ buildExit = 0
    /\ stages = <<"Idle", "Building", "Evaluating">>
    /\ \E p \in Positions : wpc[p] = "trunc"

\* The batch entered run-only mode.
RunOnlyMode == Len(stages) >= 3 /\ stages[3] = "RunOnly"

\* The positions whose solution was spawned.
RanPositions == {sp[2] : sp \in {x \in spawned : x[1] = "bin"}}

\* C11: in run-only mode the cases are run one at a time in resolved-
\* sequence order: the positions run so far are an initial segment of the
\* sequence and every one before the cursor exited with status zero; no
\* visualizer or tester is run and nothing is printed; after the first case
\* that cannot be opened or spawned or that exits non-zero no later case
\* is run and the batch returns that case's error; the batch succeeds only
\* when every case ran.
C11_RunOnlySequential ==
    RunOnlyMode =>
        /\ stdout = <<>>
        /\ CaseSubprocesses = {<<"bin", q>> : q \in RanPositions}
        /\ pool = "none" /\ aggPc = "none" /\ execs = <<>>
        /\ roNext \in 0..N
        /\ \A q \in 0..(roNext - 1) : SolExit(CaseAt(q)) = 0
        /\ pc = "runonly" => RanPositions = 0..(roNext - 1)
        /\ pc \in {"returned", "exited"} =>
              IF ret.ok
              THEN roNext = N /\ RanPositions = 0..(N - 1)
              ELSE /\ roNext < N
                   /\ ret.val[3] = roNext
                   /\ ret.val[2] \in {"bin", "open", "spawn", "status"}
                   /\ RanPositions =
                         IF ret.val[2] = "status" THEN 0..roNext
                         ELSE 0..(roNext - 1)
                   /\ ret.val[2] = "status" => SolExit(CaseAt(roNext)) # 0

\* C11 witness: of the cases 0, 1, 0 run without evaluation the second
\* exited non-zero; the batch failed with its error and the third never ran.
C11_Witness ==
    /\ pc = "exited"
    /\ RunOnlyMode
    /\ cases = <<0, 1, 0>>
    /\ ret = Err("case failed", "status", 1)
    /\ RanPositions = {0, 1}

\* C12: on clean completion of an evaluating batch with N >= 1 cases
\* clip() is called once, on the result of the last position N-1, after
\* every result line has been emitted, and the clipboard then holds that
\* position's output file or, the copy having failed, what it held before;
\* no copy is made when N = 0 or when the batch fails; whether the copy
\* worked does not change what the batch returns.
C12_ClipsLastPosition ==
    /\ clips # <<>> =>
          /\ CleanCompletion
          /\ N >= 1
          /\ clips = <<N - 1>>
          /\ Len(Emitted) = N
          /\ last = res[N - 1]
    /\ CleanCompletion /\ N >= 1 =>
          /\ clips = <<N - 1>>
          /\ clipboard \in {Absent, SolOut(CaseAt(N - 1))}
    /\ ~CleanCompletion \/ N = 0 => clips = <<>> /\ clipboard = Absent
    /\ pc \in {"returned", "exited"} /\ ~ret.ok => clips = <<>>
    /\ CleanCompletion /\ pc \in {"returned", "exited"} =>
          ret = Ok("unit") /\ Len(stdout) = N + 1

\* C12 witness: a batch of three cases completed cleanly and the clipboard
\* holds the output file of position 2.
C12_Witness ==
    /\ pc = "exited"
    /\ exit = 0
    /\ cases = <<0, 0, 1>>
    /\ clips = <<2>>
    /\ clipboard = SolOut(1)

\* Where the dashes of a token are.
Dashes(t) == {i \in 1..Len(t) : t[i] = "-"}

\* The inclusive range a..b, empty when a > b.
Interval(a, b) == [i \in 1..(IF b >= a THEN b - a + 1 ELSE 0) |-> a + i - 1]

\* What the selector rules make of one token.
TokenExpansion(t) ==
    IF Dashes(t) = {}
    THEN IF ParseU32(t)[1] THEN <<ParseU32(t)[2]>> ELSE <<>>
    ELSE IF Cardinality(Dashes(t)) = 1
    THEN LET k == CHOOSE i \in Dashes(t) : TRUE
             a == ParseU32(SubSeq(t, 1, k - 1))
             b == ParseU32(SubSeq(t, k + 1, Len(t)))
         IN  IF a[1] /\ b[1] THEN Interval(a[2], b[2]) ELSE <<>>
    ELSE <<>>

RECURSIVE Concatenation(_)
Concatenation(ts) ==
    IF ts = <<>> THEN <<>>
    ELSE Concatenation(SubSeq(ts, 1, Len(ts) - 1))
             \o TokenExpansion(ts[Len(ts)])

\* C13: parse_cases returns the concatenation, in token order, of each
\* token's expansion: a token without '-' that parses as an unsigned
\* integer gives that index, a token a-b with both sides parsing gives
\* a..b (nothing when a > b), every other token gives nothing; duplicates
\* are kept; the default 0..4 is what the empty token list gives, and a
\* non-empty list never falls back to it.
C13_ParseCases ==
    call.fn = "parse_cases" /\ call.done =>
        IF call.arg = <<>>
        THEN call.out = <<0, 1, 2, 3, 4>>
        ELSE call.out = Concatenation(call.arg)

\* C13 witness: the tokens 0-1 and 1 gave 0, 1, 1, the duplicate kept.
C13_Witness ==
    /\ call.fn = "parse_cases"
    /\ call.done
    /\ call.arg = << <<"0", "-", "1">>, <<"1">> >>
    /\ call.out = <<0, 1, 1>>

\* A line on which the pattern matches and whose group 1 is an unsigned
\* integer.
Qualifies(line) == line.m /\ line.g /\ ParseU64(line.text)[1]

\* The value of the first qualifying line, 0 when there is none.
FirstQualifying(lines) ==
    IF \E i \in 1..Len(lines) : Qualifies(lines[i])
    THEN LET i == CHOOSE k \in 1..Len(lines) :
                      /\ Qualifies(lines[k])
                      /\ \A j \in 1..(k - 1) : ~Qualifies(lines[j])
         IN  ParseU64(lines[i].text)[2]
    ELSE 0

\* C14: parse_score returns the value of the first line, in line order, on
\* which the score pattern matches and whose first capture group parses as
\* an unsigned integer; a line whose capture does not parse does not
\* determine the score, later qualifying lines are ignored, and the result
\* is 0 when no line qualifies.
C14_FirstParsingLine ==
    call.fn = "parse_score" /\ call.done =>
        call.out = FirstQualifying(call.arg)

\* C14, the divergence: a line whose capture is no number, followed by a
\* line that gives 42, was scored 0.
C14_Diverged ==
    /\ call.fn = "parse_score"
    /\ call.done
    /\ call.arg = <<Capture(<<"x">>), Capture(<<"4", "2">>)>>
    /\ call.out = 0

\* The captures of the lines that match with a group 1.
RECURSIVE Contributions(_)
Contributions(lines) ==
    IF lines = <<>> THEN <<>>
    ELSE (IF Head(lines).m /\ Head(lines).g THEN <<Head(lines).text>>
          ELSE <<>>) \o Contributions(Tail(lines))

\* Texts joined with '/': one separator between two neighbours.
RECURSIVE Joined(_)
Joined(texts) ==
    IF texts = <<>> THEN <<>>
    ELSE IF Len(texts) = 1 THEN texts[1]
    ELSE texts[1] \o <<"/">> \o Joined(Tail(texts))

\* C15: lookup_comments_from returns the first-capture-group texts of the
\* matching lines, in line order, joined with '/': k contributions give
\* k-1 separators, also when a contribution is empty; lines that do not
\* match contribute nothing; no match gives the empty text.
C15_JoinedCaptures ==
    call.fn = "lookup_comments_from" /\ call.done =>
        call.out = Joined(Contributions(call.arg))

\* C15, the divergence: an empty capture followed by the capture "a" gave
\* "a", without the separator between the two.
C15_Diverged ==
    /\ call.fn = "lookup_comments_from"
    /\ call.done
    /\ call.arg = <<Capture(<<>>), Capture(<<"a">>)>>
    /\ call.out = <<"a">>

\* The batch entered evaluating mode.
EvaluatingMode == Len(stages) >= 3 /\ stages[3] = "Evaluating"

\* The messages in the channel that carry slot i.
MessagesOf(i) == {k \in 1..Len(chan) : chan[k][1] = i}

\* C16 as stated: an evaluating batch returns to its caller only after
\* every position of the resolved sequence has been executed exactly once.
C16_EveryPositionRuns ==
    EvaluatingMode /\ pc \in {"returned", "exited"} =>
        \A p \in Positions : execs[p] = 1 /\ wpc[p] = "sent"

\* C16, amended: once the worker pool has been built the engine never
\* cancels work: every position is executed exactly once and sends exactly
\* one message, also after another case failed and after the aggregator
\* stopped; a send to the closed channel is ignored and leaves the worker
\* finished as after any other send; the batch returns only after every
\* position has been executed.  When the pool cannot be built no position
\* is executed and the batch returns the pool's error.
C16_NoCancellation ==
    /\ \A p \in DOMAIN execs :
          /\ execs[p] = IF wpc[p] = "idle" THEN 0 ELSE 1
          /\ Cardinality(MessagesOf(p)) <= 1
          /\ MessagesOf(p) # {} => wpc[p] = "sent" /\ rxOpen
          /\ \A k \in MessagesOf(p) : chan[k] = <<p, res[p]>>
          /\ wpc[p] = "sent" <=> res[p] # None
    /\ EvaluatingMode /\ ~rxOpen => chan = <<>>
    /\ pc = "evaluating" /\ pool = "installed" =>
          \A p \in Positions :
              wpc[p] = "idle" /\ Cardinality(Busy) < config.threads =>
                  ENABLED StartCase(p)
    /\ EvaluatingMode /\ pc \in {"returned", "exited"} =>
          IF pool = "failed"
          THEN /\ \A p \in Positions : execs[p] = 0 /\ wpc[p] = "idle"
               /\ ret = Err("pool", "pool", -1)
               /\ CaseSubprocesses = {}
          ELSE /\ pool = "done"
               /\ \A p \in Positions : execs[p] = 1 /\ wpc[p] = "sent"

\* C16 witness: with one worker thread position 0 failed, the aggregator
\* stopped on its error, and the positions 1 and 2 were still executed
\* and evaluated before the batch returned the error.
C16_Witness ==
    /\ pc = "exited"
    /\ EvaluatingMode
    /\ config.threads = 1
    /\ N = 3
    /\ ret = res[0]
    /\ IsIoError(res[0])
    /\ res[1].ok
    /\ res[2].ok
    /\ stdout = <<>>

\* C17, state part: the cursor is within 0..N; every slot below it has been
\* emitted, in order, and is empty; a filled slot is at or after the cursor,
\* holds the one result of its position and has no second message coming; a
\* message still in the channel finds its slot pending and not yet emitted;
\* on clean completion the cursor is N and every slot was filled and
\* emitted once.
C17_Buffer ==
    EvaluatingMode =>
        /\ next \in 0..N
        /\ Len(Emitted) = next
        /\ \A q \in 0..(next - 1) :
              /\ buf[q] = None
              /\ res[q].ok
              /\ Emitted[q + 1] = ResultLine(res[q].val)
              /\ MessagesOf(q) = {}
        /\ \A q \in DOMAIN buf :
              buf[q].ok =>
                  /\ q >= next
                  /\ buf[q] = res[q]
                  /\ MessagesOf(q) = {}
        /\ \A k \in 1..Len(chan) :
              /\ chan[k][1] \in DOMAIN buf
              /\ ~buf[chan[k][1]].ok
              /\ chan[k][1] >= next
        /\ CleanCompletion =>
              next = N /\ \A q \in DOMAIN buf : buf[q] = None /\ res[q].ok

\* C17, step part: the cursor never rewinds and moves only over slots that
\* are filled at that moment, one emitted line per slot passed; a filled
\* slot is never overwritten and is emptied only by being emitted; a slot
\* is filled only while pending, at or after the cursor, by the message
\* received in that step.
C17_Moves ==
    /\ next' >= next
    /\ Len(stdout') - Len(stdout) >= next' - next
    /\ EvaluatingMode =>
          /\ \A q \in next..(next' - 1) :
                \/ buf[q].ok
                \/ /\ chan # <<>>
                   /\ Head(chan) = <<q, res[q]>>
                   /\ res[q].ok
          /\ \A q \in DOMAIN buf :
                /\ buf[q].ok =>
                      \/ buf'[q] = buf[q]
                      \/ buf'[q] = None /\ q < next'
                /\ ~buf[q].ok /\ buf'[q].ok =>
                      /\ q > next
                      /\ chan # <<>> /\ Head(chan)[1] = q
                      /\ chan' = Tail(chan)

\* C17: the aggregation buffer invariant: 0 <= cursor <= N; the cursor only
\* advances, one slot per emitted result and only past slots filled at that
\* moment, never skipping a pending slot and never rewinding; no slot is
\* filled a second time; every slot below the cursor has been emitted and
\* is empty; on clean completion every slot was filled once and the cursor
\* is N.
C17_BufferInvariant == []C17_Buffer /\ [][C17_Moves]_vars

\* C17 witness: the results of the positions 1 and 2 wait in the buffer
\* and the result of position 0 is the next message: the cursor is about
\* to pass three filled slots.
C17_Witness ==
    /\ aggPc = "recv"
    /\ N = 3
    /\ next = 0
    /\ buf[1].ok
    /\ buf[2].ok
    /\ chan # <<>>
    /\ Head(chan)[1] = 0
    /\ Head(chan)[2].ok

\* C18: eager flush: whenever the aggregator is between two arrivals (or
\* has ended), the cursor is N or the slot at the cursor is pending, so a
\* filled slot never waits at the cursor for a later arrival.
C18_EagerFlush ==
    EvaluatingMode => (next = N \/ ~buf[next].ok)

\* C18 witness: two results have been flushed, the aggregator is waiting
\* and the third position has not sent yet, while nothing is left in the
\* channel.
C18_Witness ==
    /\ EvaluatingMode
    /\ aggPc = "recv"
    /\ N = 3
    /\ next = 2
    /\ Len(Emitted) = 2
    /\ chan = <<>>
    /\ wpc[2] # "sent"
    /\ ~buf[2].ok

\* The operations of a case the environment can refuse: spawning the
\* solution, the tester or the visualizer, and the I/O on the directory,
\* the input file, the pipes of the subprocess and the output file.
SpawnOps == {"spawn", "spawn vis"}
IoOps == {"mkdir", "read", "open", "pipe", "create", "write"}

\* Every command a case of this configuration runs is well formed.
CommandsWellFormed ==
    /\ config.bin = "ok"
    /\ config.vis = "ok"
    /\ config.use_tester => config.tester = "ok"

\* No line of a visualizer output matches the score pattern with a capture.
NoScoreLine(visout) == \A k \in 1..Len(visout) : ~(visout[k].m /\ visout[k].g)

\* C19: in evaluating mode a case fails only on a malformed command, a
\* spawn failure or an I/O failure; exit statuses play no part: with well
\* formed commands and no refusal by the environment every executed
\* position succeeds whatever SolExit and VisExit are, its output file has
\* been written, its visualizer has been run, and on clean completion it
\* has its result line, with score 0 when no line of the visualizer output
\* matches.
C19_ExitStatusIgnored ==
    EvaluatingMode =>
        \A p \in Positions :
            /\ wpc[p] = "sent" /\ ~res[p].ok =>
                  \/ IsMalformed(res[p])
                  \/ IsIoError(res[p]) /\ res[p].val[2] \in SpawnOps \cup IoOps
            /\ wpc[p] = "sent" /\ CommandsWellFormed /\ faults = 0 => res[p].ok
            /\ wpc[p] = "sent" /\ res[p].ok =>
                  /\ Solution(p) \in spawned
                  /\ <<"vis", p>> \in spawned
                  /\ files[CaseAt(p)] # Absent
                  /\ (\A q \in Positions \ {p} : CaseAt(q) # CaseAt(p))
                        => files[CaseAt(p)] = SolOut(CaseAt(p))
                  /\ res[p].val.score = parse_score(res[p].val.visout)
                  /\ NoScoreLine(res[p].val.visout) => res[p].val.score = 0
                  /\ CleanCompletion =>
                        /\ Cardinality(LinesOf(p)) = 1
                        /\ Emitted[p + 1].score
                              = format_with_commas(res[p].val.score)

\* C19 witness: case 1, whose solution exits with a non-zero status, ran
\* at two positions; the visualizer of the first found a truncated file,
\* printed no score line and exited with a non-zero status; the batch
\* completed cleanly with a line for each, the first with score 0.
C19_Witness ==
    /\ CleanCompletion
    /\ cases = <<1, 1>>
    /\ SolExit(1) # 0
    /\ res[0].ok
    /\ res[0].val.visout = VisOut(1, Empty)
    /\ VisExit(1, Empty) # 0
    /\ Emitted[1].score = format_with_commas(0)
    /\ Emitted[2].score = format_with_commas(VisScore(1))

\* A worker that has started a case can take its next step, and with it
\* its send, whatever the state of the channel and of the aggregator.
NeverBlocked ==
    \A p \in Positions :
        /\ wpc[p] = "trunc" => ENABLED WriteAll(p)
        /\ wpc[p] = "written" => ENABLED Visualize(p)

\* The receive loop has ended: on the first error it received, or on a
\* closed and drained channel when no worker is left.
LoopEnded ==
    /\ aggPc = "err" =>
          /\ ~aggRet.ok
          /\ aggRet = firstErr
          /\ ~rxOpen
    /\ aggPc = "ok" =>
          /\ ~txOpen
          /\ chan = <<>>
          /\ pool \in {"done", "failed"}
          /\ Busy = {}
          /\ pool = "done" => \A p \in Positions : wpc[p] = "sent"

C20_Safe ==
    /\ pc # "exited" => ENABLED Next
    /\ EvaluatingMode => NeverBlocked /\ LoopEnded
    /\ pc = "exited" /\ exit # 101 =>
          stages[Len(stages)] \in {"Completed", "Failed"}

\* C20: with terminating subprocesses and fair scheduling every run ends,
\* a started batch in Completed or Failed, and never deadlocks: a state
\* that is not final has a step to take, no worker ever waits to send
\* (also after the aggregator stopped), and the receive loop ends on the
\* first error or on the channel closed after all workers have finished.
C20_Terminates ==
    /\ []C20_Safe
    /\ <>(pc = "exited")
    /\ [](EvaluatingMode => <>(aggPc \in {"ok", "err"}))

\* C20 witness: the aggregator has stopped on an error while a worker is
\* still in the middle of a case and has its send ahead of it.
C20_Witness ==
    /\ EvaluatingMode
    /\ aggPc = "err"
    /\ ~rxOpen
    /\ \E p \in Positions : wpc[p] = "written"

\* The position whose error ended the receive loop.
ErrorPosition == aggRet.val[3]

\* The positions a result line has been printed for.
EmittedPositions == {Emitted[k].pos : k \in 1..Len(Emitted)}

\* C21: when an evaluating batch fails with the error of the case at
\* position p, the printed lines are those of the positions 0..k-1 for
\* some k <= p, and nothing else is printed: no line for p or a higher
\* position, also when such a position succeeded and lies in the buffer,
\* and no line for a position below p that had not been flushed when the
\* error arrived, whether its result lies in the buffer or came later.
C21_EmittedPrefix ==
    EvaluatingMode /\ aggPc = "err" =>
        /\ ErrorPosition \in Positions
        /\ res[ErrorPosition] = aggRet
        /\ next <= ErrorPosition
        /\ EmittedPositions = 0..(next - 1)
        /\ Len(stdout) = next
        /\ \A q \in Positions : q >= ErrorPosition => q \notin EmittedPositions
        /\ \A q \in Positions : buf[q].ok => q > next /\ q \notin EmittedPositions
        /\ \A q \in next..(ErrorPosition - 1) :
              LinesOf(q) = {} /\ (q = next => ~buf[q].ok)
        /\ pc \in {"returned", "exited"} => ret = aggRet

\* C21 witness: the batch failed with the error of position 1; position 2
\* had succeeded before and lies in the buffer, position 0 succeeded after
\* the aggregator stopped, and no line was printed.
C21_Witness ==
    /\ pc = "exited"
    /\ EvaluatingMode
    /\ aggPc = "err"
    /\ N = 3
    /\ ret.val[3] = 1
    /\ buf[2].ok
    /\ res[0].ok
    /\ wpc[0] = "sent"
    /\ next = 0
    /\ stdout = <<>>

====
